---- MODULE Spec2Model ----
(***************************************************************************)
(* Model of the necoconeco sync client (clientsync.go): one sync cycle is  *)
(* main(): queue bootstrap, snapshot load, processSnapshots, postSnapshot, *)
(* processActions.  Collaborators that live outside clientsync.go (file    *)
(* manager, API client, queue management, server) are modelled by their    *)
(* interface: every call returns either success or an error.               *)
(***************************************************************************)
EXTENDS Integers, Sequences, FiniteSets, Bags, TLC

\* ---------------------------------------------------------------- bounds
MaxPaths == 2
MaxHash == 1

Paths == 1..MaxPaths
\* content metadata of an entry; the client copies it and never inspects it
Hashes == 1..MaxHash

\* ------------------------------------------------------------- constants
StatusExists == "exists"
StatusDeleted == "deleted"
Statuses == {StatusExists, StatusDeleted}

ActionUpload == "upload"
ActionDownload == "download"
ActionMkdir == "mkdir"
ActionOther == "other"
Actions == {ActionUpload, ActionDownload, ActionMkdir, ActionOther}

clientID == "client-1"
syncDirectory == "/sync"

\* a nil pointer (*utils.DirectoryMetadata, *utils.SyncActionMetadata)
Nil == <<>>

\* ------------------------------------------------------------ data model
FileMetadata == [Status : Statuses, ContentHash : Hashes]
PresentMetadata == [Status : {StatusExists}, ContentHash : Hashes]

EmptyMap == [p \in {} |-> p]

\* m[k] = v, as the Go map assignment m[k] = v
Put(m, k, v) == [x \in (DOMAIN m) \cup {k} |-> IF x = k THEN v ELSE m[x]]

MapsOver(Values) == UNION {[S -> Values] : S \in SUBSET Paths}

\* utils.DirectoryMetadata: Files map[string]FileMetadata
DirectoryMetadata == [Files : MapsOver(FileMetadata)]
\* what a scan of the live directory yields: only entries that exist
LocalMetadata == [Files : MapsOver(PresentMetadata)]

\* utils.SyncActionMetadata: Files map[string]FileActionMetadata
FileActionMetadata == [Action : Actions]
SyncActionMetadata == [Files : MapsOver(FileActionMetadata)]

\* every order in which a Go range loop may visit the keys of a map
OrdersOf ==
    [S \in SUBSET Paths |->
        {o \in [1..Cardinality(S) -> S] : \A p \in S : \E i \in DOMAIN o : o[i] = p}]

Orders(S) == OrdersOf[S]

\* utils.RelToAbsConvert(syncDirectory, normalizedPath)
RelToAbsConvert(dir, normalizedPath) == <<dir, normalizedPath>>

\* ------------------------------------------------------ processSnapshots
\* variant: the tombstone keeps the status of last's record
TombstoneStep_KeepsStatus(final, lastFiles, currentFiles, path) ==
    LET fileMetadata == lastFiles[path]
    IN IF path \notin DOMAIN currentFiles
       THEN Put(final, path, fileMetadata)
       ELSE final

\* variant: the tombstone is never stored in the result
TombstoneStep_NoInsert(final, lastFiles, currentFiles, path) == final

\* variant: a fresh record with only the status set is stored
TombstoneStep_FreshRecord(final, lastFiles, currentFiles, path) ==
    IF path \notin DOMAIN currentFiles
    THEN Put(final, path, [Status |-> StatusDeleted, ContentHash |-> 0])
    ELSE final

\* variant: a tombstone is stored only while the result is still empty
TombstoneStep_OnlyFirst(final, lastFiles, currentFiles, path) ==
    LET fileMetadata == lastFiles[path]
    IN IF path \notin DOMAIN currentFiles /\ DOMAIN final = {}
       THEN Put(final, path, [fileMetadata EXCEPT !.Status = StatusDeleted])
       ELSE final

\* body of the first loop (lines 133-138) for one key of lastSnapshot.Files;
\* fileMetadata is the loop's copy of last's record
TombstoneStep(final, lastFiles, currentFiles, path) ==
    LET fileMetadata == lastFiles[path]
    IN IF path \notin DOMAIN currentFiles
       THEN Put(final, path, [fileMetadata EXCEPT !.Status = StatusDeleted])
       ELSE final

\* variant: the record is not stored in the result
CopyStep_NoInsert(final, currentFiles, path) == final

\* body of the second loop (line 143) for one key of currentSnapshot.Files
CopyStep(final, currentFiles, path) == Put(final, path, currentFiles[path])

\* variant: the status is written through to last's own record
LastAfterTombstoneStep_Aliased(lastFiles, currentFiles, path) ==
    IF path \notin DOMAIN currentFiles
    THEN [lastFiles EXCEPT ![path].Status = StatusDeleted]
    ELSE lastFiles

\* lastSnapshot.Files after one iteration of the first loop: line 136 assigns
\* to the range variable, a copy of the map's value, so the map is as before
LastAfterTombstoneStep(lastFiles, currentFiles, path) == lastFiles

\* first loop: range lastSnapshot.Files, visiting the keys in `order`
RECURSIVE TombstoneLoop(_, _, _, _)
TombstoneLoop(lastFiles, currentFiles, order, final) ==
    IF order = <<>> THEN final
    ELSE TombstoneLoop(lastFiles, currentFiles, Tail(order),
                       TombstoneStep(final, lastFiles, currentFiles, Head(order)))

\* second loop: range currentSnapshot.Files, visiting the keys in `order`
RECURSIVE CopyLoop(_, _, _)
CopyLoop(currentFiles, order, final) ==
    IF order = <<>> THEN final
    ELSE CopyLoop(currentFiles, Tail(order), CopyStep(final, currentFiles, Head(order)))

\* processSnapshots (lines 126-147) for given visiting orders of the two maps
processSnapshotsOrd(last, current, lastOrder, currentOrder) ==
    [Files |-> CopyLoop(current.Files, currentOrder,
                   TombstoneLoop(last.Files, current.Files, lastOrder, EmptyMap))]

\* the results processSnapshots can return, over all visiting orders
processSnapshots(last, current) ==
    LET afterFirstLoop == {TombstoneLoop(last.Files, current.Files, lo, EmptyMap) :
                              lo \in Orders(DOMAIN last.Files)}
    IN {[Files |-> CopyLoop(current.Files, co, final)] :
           final \in afterFirstLoop, co \in Orders(DOMAIN current.Files)}

\* ------------------------------------------------------------------ state
VARIABLES
    pc,                  \* position of main()
    disk,                \* the live sync directory: path -> metadata
    persisted,           \* the last snapshot in durable storage, or Nil
    baseline,            \* history: persisted as it was when the cycle began
    lastSnapshot,        \* main: lastSnapshot
    exists,              \* main: exists
    currentSnapshot,     \* main: currentSnapshot
    finalSnapshot,       \* main: finalSnapshot (processSnapshots result)
    submitted,           \* request bodies handed to http.DefaultClient.Do
    syncActionMetadata,  \* main: syncActionMetadata (the plan), or Nil
    pending,             \* processActions: keys the range loop has not visited
    calls,               \* history: calls main and postSnapshot made, in order
    attempts             \* history: bag of the calls made inside the range loop

vars == <<pc, disk, persisted, baseline, lastSnapshot, exists, currentSnapshot,
          finalSnapshot, submitted, syncActionMetadata, pending, calls, attempts>>

Call(op, path, arg, ok) == [op |-> op, path |-> path, arg |-> arg, ok |-> ok]

locals == <<lastSnapshot, exists, currentSnapshot, finalSnapshot, submitted,
            syncActionMetadata, pending, attempts>>

InitLocals ==
    /\ lastSnapshot = Nil
    /\ exists = FALSE
    /\ currentSnapshot = Nil
    /\ finalSnapshot = Nil
    /\ submitted = <<>>
    /\ syncActionMetadata = Nil
    /\ pending = {}
    /\ calls = <<>>
    /\ attempts = EmptyBag

Init ==
    /\ pc = "connect"
    /\ disk \in MapsOver(PresentMetadata)
    /\ persisted \in {Nil} \cup LocalMetadata
    /\ baseline = persisted
    /\ InitLocals

\* ------------------------------------------------------------------ main
\* env.NewConnection (lines 55-59)
NewConnection ==
    /\ pc = "connect"
    /\ \E ok \in BOOLEAN :
        /\ calls' = Append(calls, Call("NewConnection", 0, <<>>, ok))
        /\ pc' = IF ok THEN "declare" ELSE "aborted"
    /\ UNCHANGED <<disk, persisted, baseline, locals>>

\* variant: no return after a failed DeclareQueue
DeclareQueue_NoReturn ==
    /\ pc = "declare"
    /\ \E ok \in BOOLEAN :
        /\ calls' = Append(calls, Call("DeclareQueue", 0, <<>>, ok))
        /\ pc' = "purge"
    /\ UNCHANGED <<disk, persisted, baseline, locals>>

\* management.DeclareQueue (lines 66-73)
DeclareQueue ==
    /\ pc = "declare"
    /\ \E ok \in BOOLEAN :
        /\ calls' = Append(calls, Call("DeclareQueue", 0, <<>>, ok))
        /\ pc' = IF ok THEN "purge" ELSE "aborted"
    /\ UNCHANGED <<disk, persisted, baseline, locals>>

\* variant: no return after a failed PurgeQueue
PurgeQueue_NoReturn ==
    /\ pc = "purge"
    /\ \E ok \in BOOLEAN :
        /\ calls' = Append(calls, Call("PurgeQueue", 0, <<>>, ok))
        /\ pc' = "getLast"
    /\ UNCHANGED <<disk, persisted, baseline, locals>>

\* management.PurgeQueue (lines 76-81)
PurgeQueue ==
    /\ pc = "purge"
    /\ \E ok \in BOOLEAN :
        /\ calls' = Append(calls, Call("PurgeQueue", 0, <<>>, ok))
        /\ pc' = IF ok THEN "getLast" ELSE "aborted"
    /\ UNCHANGED <<disk, persisted, baseline, locals>>

\* fileManager.GetLastSnapshot: (snapshot, exists, err)
GetLastSnapshotResult(ok) ==
    IF ok /\ persisted # Nil
    THEN [snapshot |-> persisted, exists |-> TRUE]
    ELSE [snapshot |-> Nil, exists |-> FALSE]

\* variant: main returns when the last snapshot cannot be read
GetLastSnapshot_ReturnsOnError ==
    /\ pc = "getLast"
    /\ \E ok \in BOOLEAN :
        LET r == GetLastSnapshotResult(ok) IN
        /\ lastSnapshot' = r.snapshot
        /\ exists' = r.exists
        /\ calls' = Append(calls, Call("GetLastSnapshot", 0, <<>>, ok))
        /\ pc' = IF ok THEN "getLocal" ELSE "aborted"
    /\ UNCHANGED <<disk, persisted, baseline, currentSnapshot, finalSnapshot,
                   submitted, syncActionMetadata, pending, attempts>>

\* lines 85-89: the error is logged and main goes on
GetLastSnapshot ==
    /\ pc = "getLast"
    /\ \E ok \in BOOLEAN :
        LET r == GetLastSnapshotResult(ok) IN
        /\ lastSnapshot' = r.snapshot
        /\ exists' = r.exists
        /\ calls' = Append(calls, Call("GetLastSnapshot", 0, <<>>, ok))
    /\ pc' = "getLocal"
    /\ UNCHANGED <<disk, persisted, baseline, currentSnapshot, finalSnapshot,
                   submitted, syncActionMetadata, pending, attempts>>

\* fileManager.GetLocalMetadata (lines 93-98)
GetLocalMetadata ==
    /\ pc = "getLocal"
    /\ \E ok \in BOOLEAN :
        /\ calls' = Append(calls, Call("GetLocalMetadata", 0, <<>>, ok))
        /\ currentSnapshot' = IF ok THEN [Files |-> disk] ELSE Nil
        /\ pc' = IF ok THEN "submit" ELSE "aborted"
    /\ UNCHANGED <<disk, persisted, baseline, lastSnapshot, exists, finalSnapshot,
                   submitted, syncActionMetadata, pending, attempts>>

\* the step of postSnapshot that returns an error, "none" when none does
PostFailures == {"marshal", "request", "do", "read", "unmarshal"}

\* postSnapshot (lines 149-193) and the caller's error check
PostSnapshot(snapshot) ==
    LET payload == [client_id |-> clientID, final_snapshot |-> snapshot] IN
    \E fail \in PostFailures \cup {"none"} :
        /\ submitted' = IF fail \in {"marshal", "request"} THEN submitted
                        ELSE Append(submitted, payload)
        /\ calls' = Append(calls, Call("postSnapshot", 0, fail, fail = "none"))
        /\ IF fail = "none"
           THEN /\ \E plan \in {Nil} \cup SyncActionMetadata :
                    /\ syncActionMetadata' = plan
                    /\ pending' = IF plan = Nil THEN {} ELSE DOMAIN plan.Files
                /\ pc' = "actions"
           ELSE /\ syncActionMetadata' = Nil
                /\ pending' = {}
                /\ pc' = "aborted"

\* variant: the merge is computed but currentSnapshot is posted
SubmitMerged_PostsCurrent ==
    /\ pc = "submit"
    /\ exists
    /\ \E final \in processSnapshots(lastSnapshot, currentSnapshot) :
        /\ finalSnapshot' = final
        /\ PostSnapshot(currentSnapshot)
    /\ UNCHANGED <<disk, persisted, baseline, lastSnapshot, exists, currentSnapshot,
                   attempts>>

\* lines 104-112: a last snapshot exists
SubmitMerged ==
    /\ pc = "submit"
    /\ exists
    /\ \E final \in processSnapshots(lastSnapshot, currentSnapshot) :
        /\ finalSnapshot' = final
        /\ PostSnapshot(final)
    /\ UNCHANGED <<disk, persisted, baseline, lastSnapshot, exists, currentSnapshot,
                   attempts>>

\* variant: the else branch posts lastSnapshot
SubmitCurrent_PostsLast ==
    /\ pc = "submit"
    /\ ~exists
    /\ PostSnapshot(lastSnapshot)
    /\ UNCHANGED <<disk, persisted, baseline, lastSnapshot, exists, currentSnapshot,
                   finalSnapshot, attempts>>

\* lines 113-120: no last snapshot
SubmitCurrent ==
    /\ pc = "submit"
    /\ ~exists
    /\ PostSnapshot(currentSnapshot)
    /\ UNCHANGED <<disk, persisted, baseline, lastSnapshot, exists, currentSnapshot,
                   finalSnapshot, attempts>>

\* -------------------------------------------------------- processActions
\* lines 196-199
NoActions ==
    /\ pc = "actions"
    /\ syncActionMetadata = Nil
    /\ pc' = "done"
    /\ UNCHANGED <<disk, persisted, baseline, locals, calls>>

\* the metadata a scan reports for a file as the server holds it
ServerEntry == [Status |-> StatusExists, ContentHash |-> MaxHash]

\* the metadata a scan reports for a directory made by MkDir
DirectoryEntry == [Status |-> StatusExists, ContentHash |-> 1]

\* one more call made by the body of the range loop
Attempt(call) == attempts' = attempts (+) SetToBag({call})

LoopStep(normalizedPath, action) ==
    /\ pc = "actions"
    /\ syncActionMetadata # Nil
    /\ normalizedPath \in pending
    /\ syncActionMetadata.Files[normalizedPath].Action = action
    /\ pending' = pending \ {normalizedPath}
    /\ pc' = "actions"
    /\ UNCHANGED <<persisted, baseline, lastSnapshot, exists, currentSnapshot,
                   finalSnapshot, submitted, syncActionMetadata, calls>>

\* variant: a failed upload returns from processActions
DoUpload_ReturnsOnError ==
    \E normalizedPath \in Paths, ok \in BOOLEAN :
        LET denormalizedPath == RelToAbsConvert(syncDirectory, normalizedPath) IN
        /\ pc = "actions"
        /\ syncActionMetadata # Nil
        /\ normalizedPath \in pending
        /\ syncActionMetadata.Files[normalizedPath].Action = ActionUpload
        /\ pending' = pending \ {normalizedPath}
        /\ pc' = IF ok THEN "actions" ELSE "done"
        /\ Attempt(Call("Upload", normalizedPath, <<denormalizedPath, clientID>>, ok))
        /\ UNCHANGED <<disk, persisted, baseline, lastSnapshot, exists, currentSnapshot,
                       finalSnapshot, submitted, syncActionMetadata, calls>>

\* lines 206-216
DoUpload ==
    \E normalizedPath \in Paths, ok \in BOOLEAN :
        LET denormalizedPath == RelToAbsConvert(syncDirectory, normalizedPath) IN
        /\ LoopStep(normalizedPath, ActionUpload)
        /\ Attempt(Call("Upload", normalizedPath, <<denormalizedPath, clientID>>, ok))
        /\ UNCHANGED disk

\* variant: a path whose download failed stays in the loop
DoDownload_RetriesOnError ==
    \E normalizedPath \in Paths, ok \in BOOLEAN :
        /\ pc = "actions"
        /\ syncActionMetadata # Nil
        /\ normalizedPath \in pending
        /\ syncActionMetadata.Files[normalizedPath].Action = ActionDownload
        /\ pending' = IF ok THEN pending \ {normalizedPath} ELSE pending
        /\ pc' = "actions"
        /\ Attempt(Call("Download", normalizedPath, <<normalizedPath>>, ok))
        /\ disk' = IF ok THEN Put(disk, normalizedPath, ServerEntry) ELSE disk
        /\ UNCHANGED <<persisted, baseline, lastSnapshot, exists, currentSnapshot,
                       finalSnapshot, submitted, syncActionMetadata, calls>>

\* lines 218-226; a successful download leaves the file in the directory
DoDownload ==
    \E normalizedPath \in Paths, ok \in BOOLEAN :
        /\ LoopStep(normalizedPath, ActionDownload)
        /\ Attempt(Call("Download", normalizedPath, <<normalizedPath>>, ok))
        /\ disk' = IF ok THEN Put(disk, normalizedPath, ServerEntry) ELSE disk

\* lines 227-235; a successful mkdir leaves the directory in place
DoMkdir ==
    \E normalizedPath \in Paths, ok \in BOOLEAN :
        LET denormalizedPath == RelToAbsConvert(syncDirectory, normalizedPath) IN
        /\ LoopStep(normalizedPath, ActionMkdir)
        /\ Attempt(Call("MkDir", normalizedPath, <<denormalizedPath>>, ok))
        /\ disk' = IF ok /\ normalizedPath \notin DOMAIN disk
                   THEN Put(disk, normalizedPath, DirectoryEntry)
                   ELSE disk

\* variant: the default case returns from processActions
DoUnknown_Returns ==
    \E normalizedPath \in Paths :
        /\ pc = "actions"
        /\ syncActionMetadata # Nil
        /\ normalizedPath \in pending
        /\ syncActionMetadata.Files[normalizedPath].Action = ActionOther
        /\ pending' = pending \ {normalizedPath}
        /\ pc' = "done"
        /\ Attempt(Call("Unknown", normalizedPath, <<>>, TRUE))
        /\ UNCHANGED <<disk, persisted, baseline, lastSnapshot, exists, currentSnapshot,
                       finalSnapshot, submitted, syncActionMetadata, calls>>

\* lines 236-237
DoUnknown ==
    \E normalizedPath \in Paths :
        /\ LoopStep(normalizedPath, ActionOther)
        /\ Attempt(Call("Unknown", normalizedPath, <<>>, TRUE))
        /\ UNCHANGED disk

\* variant: a successful capture leaves the stored snapshot as it was
CreateDirectorySnapshot_KeepsOld ==
    /\ pc = "actions"
    /\ syncActionMetadata # Nil
    /\ pending = {}
    /\ \E ok \in BOOLEAN :
        calls' = Append(calls, Call("CreateDirectorySnapshot", 0, <<>>, ok))
    /\ pc' = "done"
    /\ UNCHANGED <<disk, persisted, baseline, locals>>

\* variant: the capture does not wait for the end of the range loop
CreateDirectorySnapshot_InLoop ==
    /\ pc = "actions"
    /\ syncActionMetadata # Nil
    /\ \E ok \in BOOLEAN :
        /\ calls' = Append(calls, Call("CreateDirectorySnapshot", 0, <<>>, ok))
        /\ persisted' = IF ok THEN [Files |-> disk] ELSE persisted
    /\ pc' = "done"
    /\ UNCHANGED <<disk, baseline, locals>>

\* lines 241-248, reached when the range loop is over
CreateDirectorySnapshot ==
    /\ pc = "actions"
    /\ syncActionMetadata # Nil
    /\ pending = {}
    /\ \E ok \in BOOLEAN :
        /\ calls' = Append(calls, Call("CreateDirectorySnapshot", 0, <<>>, ok))
        /\ persisted' = IF ok THEN [Files |-> disk] ELSE persisted
    /\ pc' = "done"
    /\ UNCHANGED <<disk, baseline, locals>>

\* ------------------------------------------------------------ environment
\* between two runs of the client the user removes or writes a path
EnvRemove ==
    /\ pc = "connect"
    /\ \E p \in DOMAIN disk : disk' = [q \in (DOMAIN disk) \ {p} |-> disk[q]]
    /\ UNCHANGED <<pc, persisted, baseline, locals, calls>>

EnvWrite ==
    /\ pc = "connect"
    /\ \E p \in Paths, h \in Hashes :
        disk' = Put(disk, p, [Status |-> StatusExists, ContentHash |-> h])
    /\ UNCHANGED <<pc, persisted, baseline, locals, calls>>

\* the client is started again: a new cycle
Restart ==
    /\ pc \in {"done", "aborted"}
    /\ pc' = "connect"
    /\ baseline' = persisted
    /\ lastSnapshot' = Nil
    /\ exists' = FALSE
    /\ currentSnapshot' = Nil
    /\ finalSnapshot' = Nil
    /\ submitted' = <<>>
    /\ syncActionMetadata' = Nil
    /\ pending' = {}
    /\ calls' = <<>>
    /\ attempts' = EmptyBag
    /\ UNCHANGED <<disk, persisted>>

Next ==
    \/ NewConnection
    \/ DeclareQueue
    \/ PurgeQueue
    \/ GetLastSnapshot
    \/ GetLocalMetadata
    \/ SubmitMerged
    \/ SubmitCurrent
    \/ NoActions
    \/ DoUpload
    \/ DoDownload
    \/ DoMkdir
    \/ DoUnknown
    \/ CreateDirectorySnapshot
    \/ EnvRemove
    \/ EnvWrite
    \/ Restart

Spec == Init /\ [][Next]_vars

\* ------------------------------------------- processSnapshots on its own
\* processSnapshots statement by statement, for any last snapshot (its records
\* may carry either status) and any scan of the live directory; pending holds
\* the keys the running range loop has not visited yet
InitPure ==
    /\ pc = "tombstones"
    /\ lastSnapshot \in DirectoryMetadata
    /\ currentSnapshot \in LocalMetadata
    /\ finalSnapshot = [Files |-> EmptyMap]
    /\ pending = DOMAIN lastSnapshot.Files
    /\ exists = TRUE
    /\ disk = currentSnapshot.Files
    /\ persisted = lastSnapshot
    /\ baseline = lastSnapshot
    /\ submitted = <<>>
    /\ syncActionMetadata = Nil
    /\ calls = <<>>
    /\ attempts = EmptyBag

pureFrame == <<disk, persisted, baseline, lastSnapshot, exists, currentSnapshot,
               submitted, syncActionMetadata, calls, attempts>>

\* lines 132-139, one iteration
VisitLast ==
    /\ pc = "tombstones"
    /\ \E path \in pending :
        /\ finalSnapshot' = [Files |-> TombstoneStep(finalSnapshot.Files, lastSnapshot.Files,
                                                     currentSnapshot.Files, path)]
        /\ lastSnapshot' = [Files |-> LastAfterTombstoneStep(lastSnapshot.Files,
                                                             currentSnapshot.Files, path)]
        /\ pending' = pending \ {path}
    /\ pc' = "tombstones"
    /\ UNCHANGED <<disk, persisted, baseline, exists, currentSnapshot,
                   submitted, syncActionMetadata, calls, attempts>>

\* the first loop is over, the second begins (line 142)
StartCopy ==
    /\ pc = "tombstones"
    /\ pending = {}
    /\ pending' = DOMAIN currentSnapshot.Files
    /\ pc' = "copy"
    /\ UNCHANGED <<finalSnapshot, pureFrame>>

\* lines 142-144, one iteration
VisitCurrent ==
    /\ pc = "copy"
    /\ \E path \in pending :
        /\ finalSnapshot' = [Files |-> CopyStep(finalSnapshot.Files, currentSnapshot.Files, path)]
        /\ pending' = pending \ {path}
    /\ pc' = "copy"
    /\ UNCHANGED pureFrame

\* line 146
ReturnFinal ==
    /\ pc = "copy"
    /\ pending = {}
    /\ pc' = "merged"
    /\ UNCHANGED <<finalSnapshot, pending, pureFrame>>

NextPure ==
    \/ VisitLast
    \/ StartCopy
    \/ VisitCurrent
    \/ ReturnFinal

SpecPure == InitPure /\ [][NextPure]_vars

\* ----------------------------------------------------------------- claims
Merged == pc = "merged"

IsDeleted(snapshot, p) ==
    p \in DOMAIN snapshot.Files /\ snapshot.Files[p].Status = StatusDeleted

\* C1: a path is deleted in the merged result exactly when it is a key of
\* last and not a key of current; no tombstone for a path outside last.
C1_TombstoneIff ==
    Merged => \A p \in Paths :
        IsDeleted(finalSnapshot, p)
            <=> (p \in DOMAIN lastSnapshot.Files /\ p \notin DOMAIN currentSnapshot.Files)

C1_Witness ==
    /\ Merged
    /\ \E p, q \in Paths :
        /\ p \in DOMAIN lastSnapshot.Files /\ p \notin DOMAIN currentSnapshot.Files
        /\ lastSnapshot.Files[p].Status = StatusExists
        /\ IsDeleted(finalSnapshot, p)
        /\ q \in DOMAIN currentSnapshot.Files /\ IsDeleted(lastSnapshot, q)
        /\ ~IsDeleted(finalSnapshot, q)

\* C2: for a path that is a key of both last and current the merged record
\* is current's record.
C2_CurrentWins ==
    Merged => \A p \in (DOMAIN lastSnapshot.Files) \cap (DOMAIN currentSnapshot.Files) :
        /\ p \in DOMAIN finalSnapshot.Files
        /\ finalSnapshot.Files[p] = currentSnapshot.Files[p]

C2_Witness ==
    /\ Merged
    /\ \E p \in (DOMAIN lastSnapshot.Files) \cap (DOMAIN currentSnapshot.Files) :
        /\ lastSnapshot.Files[p] # currentSnapshot.Files[p]
        /\ finalSnapshot.Files[p] = currentSnapshot.Files[p]

\* C3: the key set of the merged result is the union of the key sets of
\* last and current.
C3_UnionKeys ==
    Merged => DOMAIN finalSnapshot.Files
                = (DOMAIN lastSnapshot.Files) \cup (DOMAIN currentSnapshot.Files)

C3_Witness ==
    /\ Merged
    /\ (DOMAIN lastSnapshot.Files) \ (DOMAIN currentSnapshot.Files) # {}
    /\ (DOMAIN currentSnapshot.Files) \ (DOMAIN lastSnapshot.Files) # {}
    /\ DOMAIN finalSnapshot.Files = Paths

\* --- helpers over the call history of the cycle
HasCall(op) == \E i \in DOMAIN calls : calls[i].op = op
Failed(op) == \E i \in DOMAIN calls : calls[i].op = op /\ ~calls[i].ok
CollaboratorOps == {"Upload", "Download", "MkDir"}
Attempted(q) == \E c \in BagToSet(attempts) : c.path = q
FailedDirective(c) == c.op \in CollaboratorOps /\ ~c.ok
NoDirectiveWork == attempts = EmptyBag
NoCollaboratorCall == \A c \in BagToSet(attempts) : c.op \notin CollaboratorOps

\* C4: when a directive fails the cycle is not cut short: it ends with every
\* path of the plan attempted and with the snapshot capture performed.
C4_FailureIsolated ==
    (\E c \in BagToSet(attempts) : FailedDirective(c)) =>
        /\ pc \in {"actions", "done"}
        /\ pc = "done" =>
            /\ \A q \in DOMAIN syncActionMetadata.Files : Attempted(q)
            /\ calls[Len(calls)].op = "CreateDirectorySnapshot"

C4_Witness ==
    /\ pc = "done"
    /\ \E c, d \in BagToSet(attempts) :
        /\ FailedDirective(c)
        /\ d.op \in CollaboratorOps
        /\ d.path # c.path
    /\ HasCall("CreateDirectorySnapshot")

\* C5: with no plan in the response the executor does no directive work but
\* still captures a fresh snapshot before the cycle ends.
C5_NilPlanRefreshes ==
    (pc = "done" /\ syncActionMetadata = Nil) =>
        /\ NoCollaboratorCall
        /\ HasCall("CreateDirectorySnapshot")

\* C6: after a fatal failure the cycle is aborted, no directive was attempted,
\* no snapshot capture was made and the persisted snapshot is the one the
\* cycle started from.
FatalFailure ==
    \/ Failed("DeclareQueue")
    \/ Failed("PurgeQueue")
    \/ Failed("GetLocalMetadata")
    \/ Failed("postSnapshot")

C6_FatalAborts ==
    FatalFailure =>
        /\ pc = "aborted"
        /\ NoDirectiveWork
        /\ ~HasCall("CreateDirectorySnapshot")
        /\ persisted = baseline

C6_Witness ==
    /\ pc = "aborted"
    /\ Failed("postSnapshot")
    /\ submitted # <<>>
    /\ persisted # Nil
    /\ persisted.Files # disk

\* C7: a snapshot load or submission is preceded by a successful DeclareQueue
\* followed by a successful PurgeQueue; after a failed one there is none.
SnapshotOps == {"GetLastSnapshot", "GetLocalMetadata", "postSnapshot"}

C7_QueueFirst ==
    \A i \in DOMAIN calls : calls[i].op \in SnapshotOps =>
        /\ \E j, k \in DOMAIN calls :
            /\ j < k /\ k < i
            /\ calls[j].op = "DeclareQueue" /\ calls[j].ok
            /\ calls[k].op = "PurgeQueue" /\ calls[k].ok
        /\ ~Failed("DeclareQueue")
        /\ ~Failed("PurgeQueue")

C7_Witness ==
    /\ HasCall("GetLastSnapshot")
    /\ HasCall("GetLocalMetadata")
    /\ HasCall("postSnapshot")
    /\ submitted # <<>>

\* C8: when GetLastSnapshot returns an error the cycle aborts: nothing is
\* submitted and no directive is executed.
C8_LastReadFatal ==
    Failed("GetLastSnapshot") =>
        /\ ~HasCall("postSnapshot")
        /\ submitted = <<>>
        /\ NoDirectiveWork

\* C9: without a last snapshot the one submitted snapshot is the current
\* snapshot as scanned: same keys, same record for every path, nothing added,
\* and processSnapshots is not applied.
C9_FirstRun ==
    (~exists /\ submitted # <<>>) =>
        /\ Len(submitted) = 1
        /\ currentSnapshot # Nil
        /\ submitted[1].final_snapshot = currentSnapshot
        /\ DOMAIN submitted[1].final_snapshot.Files = DOMAIN currentSnapshot.Files
        /\ \A p \in DOMAIN currentSnapshot.Files :
               submitted[1].final_snapshot.Files[p] = currentSnapshot.Files[p]
        /\ finalSnapshot = Nil

C9_Witness ==
    /\ ~exists
    /\ submitted # <<>>
    /\ DOMAIN submitted[1].final_snapshot.Files = Paths
    /\ submitted[1].client_id = clientID

\* C10: the snapshot capture is taken only when every directive of the plan
\* has been attempted, and once it is taken no directive is attempted in
\* that cycle.
Captured == HasCall("CreateDirectorySnapshot")

C10_Barrier ==
    [][/\ (~Captured /\ Captured') =>
            /\ syncActionMetadata # Nil
            /\ \A q \in DOMAIN syncActionMetadata.Files : Attempted(q)
            /\ pending = {}
            /\ attempts' = attempts
       /\ (Captured /\ Captured') => attempts' = attempts]_vars

C10_Witness ==
    /\ Captured
    /\ Cardinality(DOMAIN syncActionMetadata.Files) = 2
    /\ \E c, d \in BagToSet(attempts) :
        /\ FailedDirective(c)
        /\ d.op = "Unknown"

\* C11: a directive with an unrecognized action causes no upload, download or
\* mkdir call for its path and does not cut the plan short: the cycle ends
\* with every directive attempted and the snapshot capture performed.
C11_UnknownSkipped ==
    (\E c \in BagToSet(attempts) : c.op = "Unknown") =>
        /\ \A c \in BagToSet(attempts) :
            syncActionMetadata.Files[c.path].Action = ActionOther => c.op = "Unknown"
        /\ pc \in {"actions", "done"}
        /\ pc = "done" =>
            /\ \A q \in DOMAIN syncActionMetadata.Files : Attempted(q)
            /\ calls[Len(calls)].op = "CreateDirectorySnapshot"

C11_Witness ==
    /\ pc = "done"
    /\ \E c, d \in BagToSet(attempts) :
        /\ c.op = "Unknown"
        /\ d.op \in CollaboratorOps
        /\ d.path # c.path
    /\ Captured

\* the cycle is over and its last step stored a fresh snapshot
Refreshed ==
    /\ pc = "done"
    /\ calls # <<>>
    /\ calls[Len(calls)].op = "CreateDirectorySnapshot"
    /\ calls[Len(calls)].ok

\* what the next cycle merges when the filesystem is left alone: the stored
\* snapshot as last and a scan of the disk as current
NextMerged == processSnapshots(persisted, [Files |-> disk])

\* C12: after a cycle that applied its plan and refreshed the snapshot, the
\* merge the next cycle computes over an unchanged filesystem has no
\* tombstone for a path whose directive succeeded.
C12_Converges ==
    Refreshed =>
        /\ persisted # Nil
        /\ \A final \in NextMerged : \A c \in BagToSet(attempts) :
            (c.op \in CollaboratorOps /\ c.ok) => ~IsDeleted(final, c.path)

C12_Witness ==
    /\ Refreshed
    /\ baseline # Nil
    /\ \E c \in BagToSet(attempts) :
        /\ c.op \in CollaboratorOps
        /\ c.ok
        /\ c.path \in DOMAIN baseline.Files
        /\ c.path \notin DOMAIN currentSnapshot.Files
        /\ c.path \in DOMAIN disk

\* the failure that ended the cycle, if one did
AbortedBy(ops) ==
    /\ calls # <<>>
    /\ calls[Len(calls)].op \in ops
    /\ ~calls[Len(calls)].ok

\* C13 as stated: a cycle is aborted early only by a failure of the snapshot
\* submission or of the queue bootstrap (connection, declaration, purge).
C13_AbortOnlySubmitOrQueue ==
    pc = "aborted" =>
        AbortedBy({"postSnapshot", "NewConnection", "DeclareQueue", "PurgeQueue"})

\* C13 amended: a cycle makes a bounded number of calls and ends completed
\* (the executor was reached through a successful submission) or aborted;
\* it is aborted only by a failed connection, queue declaration, queue
\* purge, current-metadata read or snapshot submission, and no step follows
\* the failure.
C13_AbortOnlyFatal ==
    /\ Len(calls) <= 7   \* one call per stage of main and one capture
    /\ BagCardinality(attempts) <= Cardinality(Paths)
    /\ pc = "aborted" =>
        /\ AbortedBy({"postSnapshot", "NewConnection", "DeclareQueue", "PurgeQueue",
                      "GetLocalMetadata"})
        /\ NoDirectiveWork
    /\ pc = "done" =>
        \E i \in DOMAIN calls : calls[i].op = "postSnapshot" /\ calls[i].ok

C13_Witness ==
    /\ pc = "aborted"
    /\ AbortedBy({"GetLocalMetadata"})
    /\ HasCall("PurgeQueue")

\* the disk after the user removed path p
DiskWithout(p) == [q \in (DOMAIN disk) \ {p} |-> disk[q]]

\* C14: when a cycle finishes without a fatal abort and without any failed
\* call, every path then on disk, if removed before the next cycle, is a
\* tombstone in the snapshot the next cycle submits: a last snapshot exists
\* and its merge with the scan of the disk without the path marks the path
\* deleted.
C14_DeletionsPropagate ==
    (pc = "done" /\ \A i \in DOMAIN calls : calls[i].ok) =>
        \A p \in DOMAIN disk :
            /\ persisted # Nil
            /\ \A final \in processSnapshots(persisted, [Files |-> DiskWithout(p)]) :
                IsDeleted(final, p)

\* C15: with a last snapshot at most one snapshot is submitted in a cycle, it
\* is the merge of last and current, and directives are applied only after
\* that one submission succeeded and returned a plan.
C15_SubmitsMerged ==
    exists =>
        /\ Len(submitted) <= 1
        /\ submitted # <<>> =>
            /\ lastSnapshot # Nil
            /\ currentSnapshot # Nil
            /\ submitted[1].final_snapshot = finalSnapshot
            /\ \E lo \in Orders(DOMAIN lastSnapshot.Files),
                  co \in Orders(DOMAIN currentSnapshot.Files) :
                submitted[1].final_snapshot =
                    processSnapshotsOrd(lastSnapshot, currentSnapshot, lo, co)
        /\ (~NoDirectiveWork \/ Captured) =>
            /\ Len(submitted) = 1
            /\ syncActionMetadata # Nil
            /\ \E i \in DOMAIN calls : calls[i].op = "postSnapshot" /\ calls[i].ok
            /\ \A c \in BagToSet(attempts) : c.path \in DOMAIN syncActionMetadata.Files

C15_Witness ==
    /\ exists
    /\ Len(submitted) = 1
    /\ \E p \in Paths : IsDeleted(submitted[1].final_snapshot, p)
    /\ submitted[1].final_snapshot # currentSnapshot
    /\ submitted[1].final_snapshot # lastSnapshot
    /\ ~NoDirectiveWork

\* C16: a tombstone of the merged result is last's record for that path with
\* the status set to deleted and every other field as in last.
C16_TombstoneKeepsMetadata ==
    Merged => \A p \in Paths :
        IsDeleted(finalSnapshot, p) =>
            /\ p \in DOMAIN lastSnapshot.Files
            /\ DOMAIN finalSnapshot.Files[p] = DOMAIN lastSnapshot.Files[p]
            /\ \A f \in DOMAIN lastSnapshot.Files[p] :
                f # "Status" => finalSnapshot.Files[p][f] = lastSnapshot.Files[p][f]
            /\ finalSnapshot.Files[p] =
                   [lastSnapshot.Files[p] EXCEPT !.Status = StatusDeleted]

C16_Witness ==
    /\ Merged
    /\ \E p \in DOMAIN lastSnapshot.Files :
        /\ IsDeleted(finalSnapshot, p)
        /\ lastSnapshot.Files[p].Status = StatusExists
        /\ finalSnapshot.Files[p].ContentHash = lastSnapshot.Files[p].ContentHash

\* C17: for given last and current every visiting order of the two maps
\* yields one and the same merged snapshot, and it is the one returned.
C17_OrderIndependent ==
    /\ Cardinality(processSnapshots(persisted, [Files |-> disk])) = 1
    /\ Merged => finalSnapshot \in processSnapshots(persisted, [Files |-> disk])

C17_Witness ==
    /\ Merged
    /\ Cardinality((DOMAIN lastSnapshot.Files) \ (DOMAIN currentSnapshot.Files)) >= 2

\* C18: processSnapshots leaves its inputs as they were passed (persisted and
\* disk hold them from the start of the call): same keys, same records, and
\* last's record keeps its status when its tombstone is stored.
C18_InputsUnchanged ==
    /\ lastSnapshot = persisted
    /\ currentSnapshot = [Files |-> disk]
    /\ \A p \in Paths :
        (IsDeleted(finalSnapshot, p) /\ p \notin DOMAIN currentSnapshot.Files) =>
            lastSnapshot.Files[p].Status = persisted.Files[p].Status

C18_Witness ==
    /\ Merged
    /\ DOMAIN currentSnapshot.Files # {}
    /\ \E p \in DOMAIN lastSnapshot.Files :
        /\ IsDeleted(finalSnapshot, p)
        /\ lastSnapshot.Files[p].Status = StatusExists
        /\ persisted.Files[p].Status = StatusExists

\* the collaborator call a directive with the given action makes for path q
ExpectedCall(q, action, ok) ==
    CASE action = ActionUpload ->
            Call("Upload", q, <<RelToAbsConvert(syncDirectory, q), clientID>>, ok)
      [] action = ActionDownload -> Call("Download", q, <<q>>, ok)
      [] action = ActionMkdir ->
            Call("MkDir", q, <<RelToAbsConvert(syncDirectory, q)>>, ok)
      [] OTHER -> Call("Unknown", q, <<>>, TRUE)

\* C19: for a non-null plan every call made is for a path of the plan, is of
\* the kind and has the arguments its directive's action prescribes, and is
\* made once, failed or not; when the loop is over every directive has had
\* its one call.
C19_OneCallPerDirective ==
    syncActionMetadata # Nil =>
        /\ \A c \in BagToSet(attempts) :
            /\ c.path \in DOMAIN syncActionMetadata.Files
            /\ c = ExpectedCall(c.path, syncActionMetadata.Files[c.path].Action, c.ok)
            /\ CopiesIn(c, attempts) = 1
            /\ \A d \in BagToSet(attempts) : d.path = c.path => d = c
        /\ pending = {} =>
            \A q \in DOMAIN syncActionMetadata.Files : Attempted(q)

C19_Witness ==
    /\ pc = "done"
    /\ syncActionMetadata # Nil
    /\ \E c, d \in BagToSet(attempts) :
        /\ c.op = "Upload"
        /\ c.arg = <<RelToAbsConvert(syncDirectory, c.path), clientID>>
        /\ d.op = "Download"
        /\ d.arg = <<d.path>>
        /\ ~d.ok
    /\ BagCardinality(attempts) = 2

====
